---- MODULE Spec2Model ----
(***************************************************************************)
(* Model of the analyze-image relay (the serve handler) of Rumpex AI.      *)
(* One invocation of the handler is followed from the arrival of the       *)
(* request to the response, with one step per await of the handler.        *)
(*                                                                         *)
(* Strings are sequences of tokens.  An image string is a sequence over    *)
(* ImageChars, where a header token stands for the text `data:<mime>;base64`*)
(* (it holds no comma).  A reply text of the model is a sequence over      *)
(* TextTokens: braces, commas, prose, whole `"key":scalar` members and a   *)
(* `"extra":` key that must be followed by an object.                      *)
(***************************************************************************)
EXTENDS Integers, Sequences, FiniteSets, TLC

VARIABLES pc, req, apiKey, sent, upstreamCalls, upstream, resp, path

(* The RumpexHome client: its React state, the file being read and the      *)
(* analyze calls awaiting their reply.                                      *)
VARIABLES currentScreen, selectedImage, analysisResult, isAnalyzing,
          reading, inflight, invocations

relayVars == <<pc, req, apiKey, sent, upstreamCalls, upstream, resp, path>>

clientVars == <<currentScreen, selectedImage, analysisResult, isAnalyzing,
                reading, inflight, invocations>>

vars == <<relayVars, clientVars>>

(* ---------------------------------------------------------------- bounds *)
MaxImgLen == 3
MaxTextLen == 5
MaxAnalyses == 2

(* ------------------------------------------------------ JavaScript values *)
Undef == [t |-> "undef", s |-> <<>>, n |-> 0]
Null == [t |-> "null", s |-> <<>>, n |-> 0]
Num(n) == [t |-> "num", s |-> <<>>, n |-> n]
Str(s) == [t |-> "str", s |-> s, n |-> 0]

Truthy(v) == \/ v.t = "str" /\ v.s # <<>>
             \/ v.t = "num" /\ v.n # 0

SeqsUpTo(S, n) == UNION {[1..m -> S] : m \in 0..n}

(* ------------------------------------------------------------- JSON text *)
Punct(c) == [k |-> "punct", v |-> c]
LB == Punct("{")
RB == Punct("}")
COMMA == Punct(",")
X == Punct("x")
Mem(k, v) == [k |-> k, v |-> v]
KeyTok(k) == [k |-> k, v |-> ":"]

IsKeyPrefix(t) == t.k # "punct" /\ t.v = ":"
IsScalarMember(t) == t.k # "punct" /\ t.v # ":"

Scalar(k, v) == [k |-> k, isObj |-> FALSE, s |-> v, o |-> <<>>]
Nested(k, o) == [k |-> k, isObj |-> TRUE, s |-> "", o |-> o]

Put(obj, e) ==
  IF \E i \in 1..Len(obj) : obj[i].k = e.k
  THEN [i \in 1..Len(obj) |-> IF obj[i].k = e.k THEN e ELSE obj[i]]
  ELSE Append(obj, e)

ParseFail == [ok |-> FALSE, next |-> 0, obj |-> <<>>]

RECURSIVE ParseObj(_, _)
RECURSIVE ParseMembers(_, _, _)

ParseMembers(s, i, acc) ==
  IF i > Len(s) THEN ParseFail
  ELSE
    LET m == IF IsScalarMember(s[i])
             THEN [ok |-> TRUE, next |-> i + 1, e |-> Scalar(s[i].k, s[i].v)]
             ELSE IF IsKeyPrefix(s[i])
             THEN LET r == ParseObj(s, i + 1)
                  IN  [ok |-> r.ok, next |-> r.next, e |-> Nested(s[i].k, r.obj)]
             ELSE [ok |-> FALSE, next |-> 0, e |-> Scalar("", "")]
    IN  IF ~m.ok \/ m.next > Len(s) THEN ParseFail
        ELSE IF s[m.next] = RB
             THEN [ok |-> TRUE, next |-> m.next + 1, obj |-> Put(acc, m.e)]
        ELSE IF s[m.next] = COMMA
             THEN ParseMembers(s, m.next + 1, Put(acc, m.e))
        ELSE ParseFail

ParseObj(s, i) ==
  IF i > Len(s) \/ s[i] # LB THEN ParseFail
  ELSE IF i + 1 <= Len(s) /\ s[i + 1] = RB
       THEN [ok |-> TRUE, next |-> i + 2, obj |-> <<>>]
  ELSE ParseMembers(s, i + 1, <<>>)

JSONparse(s) ==
  LET r == ParseObj(s, 1)
  IN  IF r.ok /\ r.next = Len(s) + 1 THEN r ELSE ParseFail

RECURSIVE JSONstringify(_)
RECURSIVE StringifyMembers(_, _)

StringifyMembers(obj, i) ==
  IF i > Len(obj) THEN <<>>
  ELSE (IF i > 1 THEN <<COMMA>> ELSE <<>>)
       \o (IF obj[i].isObj
           THEN <<KeyTok(obj[i].k)>> \o JSONstringify(obj[i].o)
           ELSE <<Mem(obj[i].k, obj[i].s)>>)
       \o StringifyMembers(obj, i + 1)

JSONstringify(obj) == <<LB>> \o StringifyMembers(obj, 1) \o <<RB>>

Field(obj, k) ==
  IF \E i \in 1..Len(obj) : obj[i].k = k
  THEN LET i == CHOOSE j \in 1..Len(obj) : obj[j].k = k
       IN  IF obj[i].isObj THEN "object" ELSE obj[i].s
  ELSE "absent"

(* --------------------------------------------------- /\{[\s\S]*\}/ match *)
NoMatch == [found |-> FALSE, span |-> <<>>]

RegexMatchLazy(text) ==
  IF \E a, b \in 1..Len(text) : a < b /\ text[a] = LB /\ text[b] = RB
  THEN LET a == CHOOSE i \in 1..Len(text) :
                  /\ text[i] = LB
                  /\ \A j \in 1..(i - 1) : text[j] # LB
           b == CHOOSE i \in 1..Len(text) :
                  /\ i > a /\ text[i] = RB
                  /\ \A j \in (a + 1)..(i - 1) : text[j] # RB
       IN  [found |-> TRUE, span |-> SubSeq(text, a, b)]
  ELSE NoMatch

RegexMatch(text) ==
  IF \E a, b \in 1..Len(text) : a < b /\ text[a] = LB /\ text[b] = RB
  THEN LET a == CHOOSE i \in 1..Len(text) :
                  /\ text[i] = LB
                  /\ \A j \in 1..(i - 1) : text[j] # LB
           b == CHOOSE i \in 1..Len(text) :
                  /\ text[i] = RB
                  /\ \A j \in (i + 1)..Len(text) : text[j] # RB
       IN  [found |-> TRUE, span |-> SubSeq(text, a, b)]
  ELSE NoMatch

(* ------------------------------------------------------------- requests *)
HdrPng == "data:image/png;base64"
HdrJpeg == "data:image/jpeg;base64"
ImageChars == {HdrPng, HdrJpeg, ",", "A"}

Images == {Undef, Null, Num(0), Num(5)}
          \cup {Str(s) : s \in SeqsUpTo(ImageChars, MaxImgLen)}
SmallImages == {Undef, Num(5), Str(<<HdrPng, ",", "A">>)}

CallerPrompt == Str(<<"caller prompt">>)
Prompts == {Undef, CallerPrompt}
SmallPrompts == {CallerPrompt}

ApiKeys == {Undef, Str(<<>>), Str(<<"key">>)}

Bodies(images, prompts) ==
  {[kind |-> "notjson", image |-> Undef, prompt |-> Undef],
   [kind |-> "null", image |-> Undef, prompt |-> Undef]}
  \cup [kind : {"object"}, image : images, prompt : prompts]

Requests(images, prompts) ==
  [method : {"OPTIONS", "POST"}, body : Bodies(images, prompts)]

AllRequests == Requests(Images, Prompts)
SmallRequests == Requests(SmallImages, SmallPrompts)

NoRequest == [method |-> "none",
              body |-> [kind |-> "none", image |-> Undef, prompt |-> Undef]]

(* ------------------------------------------------------ upstream replies *)
TextTokens == {LB, RB, COMMA, X, Mem("valido", "true"), Mem("valido", "false"),
               Mem("puntajeLineal", "7"), KeyTok("extra")}

Texts == SeqsUpTo(TextTokens, MaxTextLen)
SmallTexts == {<<>>, <<X>>, <<LB, RB>>, <<LB, X, RB>>,
               <<LB, Mem("valido", "true"), COMMA, Mem("categoria", "Alto"), RB>>,
               <<X, LB, Mem("valido", "false"), RB, X>>}

Shapes == {"nocandidates", "emptycandidates", "nullcandidate", "nocontent",
           "noparts", "emptyparts", "notext", "text"}

NoBody == [json |-> "none", shape |-> "none", text |-> <<>>]
NotJsonBody == [json |-> "notjson", shape |-> "none", text |-> <<>>]
NullBody == [json |-> "null", shape |-> "none", text |-> <<>>]
ObjectBody(shape, text) == [json |-> "object", shape |-> shape, text |-> text]

ErrorStatuses == {400, 429, 503}

UpstreamReplies(texts) ==
  [status : ErrorStatuses, body : {NotJsonBody, ObjectBody("nocandidates", <<>>)}]
  \cup [status : {200},
        body : {NotJsonBody, NullBody}
               \cup {ObjectBody(sh, <<>>) : sh \in Shapes \ {"text"}}
               \cup {ObjectBody("text", t) : t \in texts}]

SmallReplies == UpstreamReplies(SmallTexts)
TextReplies == UpstreamReplies(Texts)

NoUpstream == [status |-> 0, body |-> NoBody]

ResponseOk(r) == r.status \in 200..299

(* ------------------------------------------------- the handler's helpers *)
StatusBadRequest == 400
StatusServerError == 500

NoJson == <<>>
RespBody(kind, error, details, data, json) ==
  [kind |-> kind, error |-> error, details |-> details, data |-> data, json |-> json]

Header(name, value) == [name |-> name, value |-> value]

corsHeaders ==
  {Header("Access-Control-Allow-Origin", "*"),
   Header("Access-Control-Allow-Headers",
          "authorization, x-client-info, apikey, content-type")}

JsonHeaders == corsHeaders \cup {Header("Content-Type", "application/json")}

Response(status, body) == [status |-> status, headers |-> JsonHeaders, body |-> body]

PreflightResponse ==
  [status |-> 200, headers |-> corsHeaders,
   body |-> RespBody("empty", "", NoBody, NoBody, NoJson)]

NoResponse == [status |-> 0, headers |-> {},
               body |-> RespBody("none", "", NoBody, NoBody, NoJson)]

ErrorEnvelope(status, error) ==
  Response(status, RespBody("error", error, NoBody, NoBody, NoJson))


ImageMissingUndefinedOnly(image) == image.t = "undef"

ImageMissing(image) == ~Truthy(image)


ApiKeyMissingInverted(key) == Truthy(key)
ApiKeyMissingNever(key) == FALSE

ApiKeyMissing(key) == ~Truthy(key)

RECURSIVE Split(_)
Split(s) ==
  IF \E i \in 1..Len(s) : s[i] = ","
  THEN LET i == CHOOSE j \in 1..Len(s) :
                  s[j] = "," /\ \A h \in 1..(j - 1) : s[h] # ","
       IN  <<SubSeq(s, 1, i - 1)>> \o Split(SubSeq(s, i + 1, Len(s)))
  ELSE <<s>>

Base64Data(image) ==
  LET pieces == Split(image)
  IN  IF Len(pieces) >= 2 /\ pieces[2] # <<>> THEN pieces[2] ELSE image

BuiltinPrompt == Str(<<"Eres un experto veterinario ...">>)

AnalysisPrompt(prompt) == BuiltinPrompt

RequestBody(image, prompt) ==
  [text |-> AnalysisPrompt(prompt),
   mime_type |-> "image/jpeg",
   data |-> Base64Data(image.s)]

NoRequestBody == [text |-> Undef, mime_type |-> "", data |-> <<>>]


UpstreamErrorResponseFixed500(up) ==
  Response(500, RespBody("error", "Error from Gemini API", up.body, NoBody, NoJson))

UpstreamErrorResponse(up) ==
  Response(up.status,
           RespBody("error", "Error from Gemini API", up.body, NoBody, NoJson))


ShapeInvalidCandidatesOnly(data) == data.shape = "nocandidates"

ShapeInvalid(data) ==
  \/ data.shape = "nocandidates"
  \/ data.shape \in {"emptycandidates", "nullcandidate"}
  \/ data.shape = "nocontent"

ShapeErrorResponse(data) ==
  Response(StatusServerError,
           RespBody("error", "No valid response from Gemini API", NoBody, data, NoJson))

PartsThrow(data) ==
  data.shape \in {"nocandidates", "emptycandidates", "nullcandidate", "nocontent",
                  "noparts", "emptyparts"}

AnalysisText(data) == IF data.shape = "text" THEN Str(data.text) ELSE Undef

FallbackMessage == "Error al procesar la respuesta del analisis. Intenta con otra imagen."


FallbackResultZeroScore ==
  <<Scalar("valido", "false"),
    Scalar("razonInvalidez", FallbackMessage),
    Scalar("numeroVacasDetectadas", "0"),
    Scalar("vacaAnalizada", "null"),
    Scalar("anguloCm", "null"),
    Scalar("puntajeLineal", "0"),
    Scalar("categoria", "null"),
    Scalar("recomendacion", "null")>>

FallbackResult ==
  <<Scalar("valido", "false"),
    Scalar("razonInvalidez", FallbackMessage),
    Scalar("numeroVacasDetectadas", "0"),
    Scalar("vacaAnalizada", "null"),
    Scalar("anguloCm", "null"),
    Scalar("puntajeLineal", "null"),
    Scalar("categoria", "null"),
    Scalar("recomendacion", "null")>>

Fallback == [path |-> "fallback", obj |-> FallbackResult]

Normalize(analysisText) ==
  IF analysisText.t # "str" THEN Fallback
  ELSE LET jsonMatch == RegexMatch(analysisText.s)
       IN  IF jsonMatch.found
           THEN LET p == JSONparse(jsonMatch.span)
                IN  IF p.ok THEN [path |-> "parsed", obj |-> p.obj] ELSE Fallback
           ELSE Fallback

ResultResponse(obj) ==
  Response(200, RespBody("result", "", NoBody, NoBody, JSONstringify(obj)))

CatchAllStatusOk(message) ==
  Response(200, RespBody("error", message, NoBody, NoBody, NoJson))

CatchAllBareHeaders(message) ==
  [status |-> StatusServerError,
   headers |-> {Header("Content-Type", "application/json")},
   body |-> RespBody("error", message, NoBody, NoBody, NoJson)]

CatchAll(message) == ErrorEnvelope(StatusServerError, message)

IsPreflightNever(r) == FALSE

IsPreflight(r) == r.method = "OPTIONS"

(* ------------------------------------------------------------ the handler *)
ClientImages == {"imgA", "imgB", "imgC"}

InitClient ==
  /\ currentScreen = "home"
  /\ selectedImage = "null"
  /\ analysisResult = "null"
  /\ isAnalyzing = FALSE
  /\ reading = "null"
  /\ inflight = {}
  /\ invocations = 0

InitRelay ==
  /\ pc = "idle"
  /\ req = NoRequest
  /\ sent = NoRequestBody
  /\ upstreamCalls = 0
  /\ upstream = NoUpstream
  /\ resp = NoResponse
  /\ path = "none"

Init ==
  /\ InitRelay
  /\ apiKey \in ApiKeys
  /\ InitClient

Respond(r, p) ==
  /\ resp' = r
  /\ path' = p
  /\ pc' = "done"

Receive(reqs) ==
  /\ pc = "idle"
  /\ \E r \in reqs : req' = r
  /\ pc' = "received"
  /\ UNCHANGED <<apiKey, sent, upstreamCalls, upstream, resp, path>>
  /\ UNCHANGED clientVars

Preflight ==
  /\ pc = "received"
  /\ IsPreflight(req)
  /\ Respond(PreflightResponse, "preflight")
  /\ UNCHANGED <<req, apiKey, sent, upstreamCalls, upstream>>
  /\ UNCHANGED clientVars

HandleRequest ==
  /\ pc = "received"
  /\ ~IsPreflight(req)
  /\ LET image == req.body.image
         prompt == req.body.prompt
     IN  IF req.body.kind = "notjson"
         THEN /\ Respond(CatchAll("Unexpected token in JSON"), "exception")
              /\ UNCHANGED <<sent, upstreamCalls>>
         ELSE IF req.body.kind = "null"
         THEN /\ Respond(CatchAll("Cannot destructure property 'image'"), "exception")
              /\ UNCHANGED <<sent, upstreamCalls>>
         ELSE IF ImageMissing(image)
         THEN /\ Respond(ErrorEnvelope(StatusBadRequest, "Image is required"),
                         "badrequest")
              /\ UNCHANGED <<sent, upstreamCalls>>
         ELSE IF ApiKeyMissing(apiKey)
         THEN /\ Respond(ErrorEnvelope(StatusServerError,
                                       "Google API key not configured"), "config")
              /\ UNCHANGED <<sent, upstreamCalls>>
         ELSE IF image.t # "str"
         THEN /\ Respond(CatchAll("image.split is not a function"), "exception")
              /\ UNCHANGED <<sent, upstreamCalls>>
         ELSE /\ sent' = RequestBody(image, prompt)
              /\ upstreamCalls' = upstreamCalls + 1
              /\ pc' = "fetching"
              /\ UNCHANGED <<resp, path>>
  /\ UNCHANGED <<req, apiKey, upstream>>
  /\ UNCHANGED clientVars

FetchRejects ==
  /\ pc = "fetching"
  /\ Respond(CatchAll("error sending request"), "exception")
  /\ UNCHANGED <<req, apiKey, sent, upstreamCalls, upstream>>
  /\ UNCHANGED clientVars

FetchResolves(replies) ==
  /\ pc = "fetching"
  /\ \E r \in replies : upstream' = r
  /\ pc' = "responded"
  /\ UNCHANGED <<req, apiKey, sent, upstreamCalls, resp, path>>
  /\ UNCHANGED clientVars

HandleResponse ==
  /\ pc = "responded"
  /\ LET data == upstream.body
     IN  IF ~ResponseOk(upstream)
         THEN Respond(UpstreamErrorResponse(upstream), "upstreamError")
         ELSE IF data.json = "notjson"
         THEN Respond(CatchAll("Unexpected token in JSON"), "exception")
         ELSE IF data.json = "null"
         THEN Respond(CatchAll("Cannot read properties of null"), "exception")
         ELSE IF ShapeInvalid(data)
         THEN Respond(ShapeErrorResponse(data), "shapeError")
         ELSE IF PartsThrow(data)
         THEN Respond(CatchAll("Cannot read properties of undefined"), "exception")
         ELSE \E n \in {Normalize(AnalysisText(data))} :
                  Respond(ResultResponse(n.obj), n.path)
  /\ UNCHANGED <<req, apiKey, sent, upstreamCalls, upstream>>
  /\ UNCHANGED clientVars

Next ==
  \/ Receive(AllRequests)
  \/ Preflight
  \/ HandleRequest
  \/ FetchRejects
  \/ FetchResolves(SmallReplies)
  \/ HandleResponse

Spec == Init /\ [][Next]_vars

FetchSettles == FetchRejects \/ FetchResolves(SmallReplies)

SpecLive ==
  /\ Init
  /\ [][Next]_vars
  /\ WF_vars(Preflight)
  /\ WF_vars(HandleRequest)
  /\ WF_vars(FetchSettles)
  /\ WF_vars(HandleResponse)

NextText ==
  \/ Receive(SmallRequests)
  \/ Preflight
  \/ HandleRequest
  \/ FetchRejects
  \/ FetchResolves(TextReplies)
  \/ HandleResponse

SpecText == Init /\ [][NextText]_vars

(* ------------------------------------------------------------- the client *)
HomeShown == currentScreen = "home"
PreviewShown == currentScreen = "preview" /\ selectedImage # "null"
ResultShown == currentScreen = "result" /\ analysisResult # "null"

PickFile ==
  /\ HomeShown
  /\ reading = "null"
  /\ \E img \in ClientImages : reading' = img
  /\ UNCHANGED <<currentScreen, selectedImage, analysisResult, isAnalyzing,
                 inflight, invocations>>
  /\ UNCHANGED relayVars

ReaderLoaded ==
  /\ reading # "null"
  /\ selectedImage' = reading
  /\ currentScreen' = "preview"
  /\ reading' = "null"
  /\ UNCHANGED <<analysisResult, isAnalyzing, inflight, invocations>>
  /\ UNCHANGED relayVars

analyzeImage ==
  /\ PreviewShown
  /\ ~isAnalyzing
  /\ invocations < MaxAnalyses
  /\ isAnalyzing' = TRUE
  /\ inflight' = inflight \cup {[id |-> invocations + 1, image |-> selectedImage]}
  /\ invocations' = invocations + 1
  /\ UNCHANGED <<currentScreen, selectedImage, analysisResult, reading>>
  /\ UNCHANGED relayVars

InstallResult(call) == call.image

AnalyzeReturnsData ==
  /\ \E call \in inflight :
       /\ analysisResult' = InstallResult(call)
       /\ currentScreen' = "result"
       /\ isAnalyzing' = FALSE
       /\ inflight' = inflight \ {call}
  /\ UNCHANGED <<selectedImage, reading, invocations>>
  /\ UNCHANGED relayVars

AnalyzeReturnsError ==
  /\ \E call \in inflight :
       /\ isAnalyzing' = FALSE
       /\ inflight' = inflight \ {call}
  /\ UNCHANGED <<currentScreen, selectedImage, analysisResult, reading, invocations>>
  /\ UNCHANGED relayVars

resetToHome ==
  /\ PreviewShown \/ ResultShown
  /\ currentScreen' = "home"
  /\ selectedImage' = "null"
  /\ analysisResult' = "null"
  /\ UNCHANGED <<isAnalyzing, reading, inflight, invocations>>
  /\ UNCHANGED relayVars

NextClient ==
  \/ PickFile
  \/ ReaderLoaded
  \/ analyzeImage
  \/ AnalyzeReturnsData
  \/ AnalyzeReturnsError
  \/ resetToHome

InitAtClient ==
  /\ InitRelay
  /\ apiKey = Str(<<"key">>)
  /\ InitClient

SpecClient == InitAtClient /\ [][NextClient]_vars

(* ------------------------------------------------------------ the claims *)
Done == pc = "done"
Image == req.body.image
Handled == Done /\ req.method = "POST" /\ req.body.kind = "object"
UpstreamText == upstream.body.text
GotText == /\ Done
           /\ upstream.status = 200
           /\ upstream.body.json = "object"
           /\ upstream.body.shape = "text"
ErrorIs(status, error) ==
  /\ resp.status = status
  /\ resp.body.kind = "error"
  /\ resp.body.error = error
  /\ resp.body.json = NoJson

(* C1 as stated: every non-OPTIONS request whose body has a present image   *)
(* makes exactly one upstream call, whatever the process configuration.     *)
C1_AsStated ==
  (Handled /\ Truthy(Image)) => upstreamCalls = 1

(* C1, amended: a non-OPTIONS request whose image is a non-empty string,    *)
(* handled with the API key configured, has made exactly one upstream call  *)
(* when it is answered, with or without a prompt; no invocation makes more  *)
(* than one call.                                                           *)
C1_OneUpstreamCall ==
  /\ upstreamCalls <= 1
  /\ (Handled /\ Image.t = "str" /\ Image.s # <<>> /\ Truthy(apiKey))
       => upstreamCalls = 1

(* C1 witness: a request with an image and no prompt was answered from the  *)
(* model's reply after one upstream call.                                   *)
C1_Witness ==
  /\ Handled /\ Image.t = "str" /\ Image.s # <<>> /\ Truthy(apiKey)
  /\ req.body.prompt = Undef
  /\ path = "parsed"
  /\ upstreamCalls = 1

(* C2: the instruction text sent upstream is the caller's prompt when the   *)
(* request carries one, and the built-in instruction only when it does not. *)
C2_PromptForwarded ==
  upstreamCalls > 0 =>
    sent.text = (IF req.body.prompt.t = "str" THEN req.body.prompt ELSE BuiltinPrompt)

HasSpan(text) == \E a, b \in 1..Len(text) : a < b /\ text[a] = LB /\ text[b] = RB
FirstLB(text) == CHOOSE i \in 1..Len(text) : text[i] = LB /\ \A j \in 1..(i - 1) : text[j] # LB
LastRB(text) == CHOOSE i \in 1..Len(text) : text[i] = RB /\ \A j \in (i + 1)..Len(text) : text[j] # RB
SpanParses(text) ==
  HasSpan(text) /\ JSONparse(SubSeq(text, FirstLB(text), LastRB(text))).ok

CanonicalFallbackJson ==
  <<LB, Mem("valido", "false"), COMMA,
    Mem("razonInvalidez", FallbackMessage), COMMA,
    Mem("numeroVacasDetectadas", "0"), COMMA,
    Mem("vacaAnalizada", "null"), COMMA,
    Mem("anguloCm", "null"), COMMA,
    Mem("puntajeLineal", "null"), COMMA,
    Mem("categoria", "null"), COMMA,
    Mem("recomendacion", "null"), RB>>

(* C4: when the upstream reply has the expected structure but its text has  *)
(* no {...} span, or a span that is not JSON, the answer is status 200 with *)
(* exactly the canonical fallback, never an error envelope.                 *)
C4_ParseFallback ==
  (GotText /\ ~SpanParses(UpstreamText)) =>
    /\ resp.status = 200
    /\ resp.body.kind = "result"
    /\ resp.body.error = ""
    /\ resp.body.json = CanonicalFallbackJson

(* C4 witness: a reply whose text has a brace span that is not JSON was     *)
(* answered with the fallback.                                              *)
C4_Witness ==
  /\ GotText /\ HasSpan(UpstreamText) /\ ~SpanParses(UpstreamText)
  /\ resp.body.json = CanonicalFallbackJson

Prefix(text, a) == SubSeq(text, 1, a - 1)
Suffix(text, b) == SubSeq(text, b + 1, Len(text))
Holds(s, tok) == \E i \in 1..Len(s) : s[i] = tok
IsProse(s) == \A i \in 1..Len(s) : s[i] \in {X, LB, RB}
ReturnsObject(o) ==
  LET given == JSONparse(o).obj
      returned == JSONparse(resp.body.json).obj
  IN  /\ resp.status = 200
      /\ resp.body.kind = "result"
      /\ resp.body.json = JSONstringify(given)
      /\ \A k \in {"valido", "puntajeLineal", "extra", "razonInvalidez"} :
           Field(returned, k) = Field(given, k)

(* C5 as stated: a reply text made of arbitrary prose, one well-formed JSON *)
(* object and arbitrary prose is answered 200 with that object.             *)
C5_AsStated ==
  GotText =>
    \A a, b \in 1..Len(UpstreamText) :
      ( /\ a < b
        /\ UpstreamText[a] = LB
        /\ UpstreamText[b] = RB
        /\ JSONparse(SubSeq(UpstreamText, a, b)).ok
        /\ IsProse(Prefix(UpstreamText, a))
        /\ IsProse(Suffix(UpstreamText, b)) )
      => ReturnsObject(SubSeq(UpstreamText, a, b))

(* C5, amended: a reply text made of a prefix holding no "{", one           *)
(* well-formed JSON object and a suffix holding no "}" is answered 200 with *)
(* a body equal to that object, field for field.                            *)
C5_EmbeddedObject ==
  GotText =>
    \A a, b \in 1..Len(UpstreamText) :
      ( /\ a < b
        /\ UpstreamText[a] = LB
        /\ UpstreamText[b] = RB
        /\ JSONparse(SubSeq(UpstreamText, a, b)).ok
        /\ ~Holds(Prefix(UpstreamText, a), LB)
        /\ ~Holds(Suffix(UpstreamText, b), RB) )
      => ReturnsObject(SubSeq(UpstreamText, a, b))

(* C5 witness: prose, {"puntajeLineal":7}, prose was answered with the      *)
(* object, puntajeLineal 7.                                                 *)
C5_Witness ==
  /\ GotText
  /\ UpstreamText = <<X, LB, Mem("puntajeLineal", "7"), RB, X>>
  /\ resp.body.json = <<LB, Mem("puntajeLineal", "7"), RB>>
  /\ path = "parsed"

MeasurementFields ==
  {"vacaAnalizada", "anguloCm", "puntajeLineal", "categoria", "recomendacion"}
ResultObject == JSONparse(resp.body.json).obj
NoMeasurements(obj) ==
  Field(obj, "valido") = "false" =>
    \A k \in MeasurementFields : Field(obj, k) \in {"null", "absent"}
InvalidHasNoMeasurements == LET obj == ResultObject IN NoMeasurements(obj)

(* C6 as stated: every result returned with status 200, on the parsed path  *)
(* and on the fallback path, has no measurement when valido is false.       *)
C6_AsStated ==
  (Done /\ resp.status = 200 /\ resp.body.kind = "result") => InvalidHasNoMeasurements

(* C6, amended: every result returned on the parse-fallback path has valido *)
(* false and every measurement field null; a parsed model output is         *)
(* returned unchecked.                                                      *)
C6_FallbackInvariant ==
  (Done /\ path = "fallback") =>
    /\ resp.status = 200 /\ resp.body.kind = "result"
    /\ Field(ResultObject, "valido") = "false"
    /\ InvalidHasNoMeasurements

(* C6 witness: a reply without any brace was answered on the fallback path. *)
C6_Witness ==
  /\ GotText /\ ~HasSpan(UpstreamText) /\ path = "fallback"
  /\ Field(ResultObject, "valido") = "false"
  /\ Field(ResultObject, "puntajeLineal") = "null"

HasDataUrlPrefix(s) == Len(s) >= 2 /\ s[1] \in {HdrPng, HdrJpeg} /\ s[2] = ","

IsBase64(s) == \A i \in 1..Len(s) : s[i] = "A"
IsImageString(s) ==
  IF HasDataUrlPrefix(s) THEN IsBase64(SubSeq(s, 3, Len(s))) ELSE IsBase64(s)

(* C7: an image that begins with data:<mime>;base64, is forwarded with      *)
(* exactly that prefix removed, an image without the prefix is forwarded    *)
(* unchanged, and the declared MIME type is always image/jpeg.  Stated for  *)
(* the images whose payload is base64 text (it holds no comma).             *)
C7_PrefixStripped ==
  (upstreamCalls > 0 /\ IsImageString(Image.s)) =>
    /\ sent.mime_type = "image/jpeg"
    /\ sent.data = (IF HasDataUrlPrefix(Image.s)
                    THEN SubSeq(Image.s, 3, Len(Image.s))
                    ELSE Image.s)

LacksCandidate == {"nocandidates", "emptycandidates", "nullcandidate", "nocontent"}
LacksText == {"noparts", "emptyparts", "notext"}
GotShape(shapes) ==
  /\ Done
  /\ upstream.status = 200
  /\ upstream.body.json = "object"
  /\ upstream.body.shape \in shapes
ShapeErrorIs ==
  /\ ErrorIs(500, "No valid response from Gemini API")
  /\ resp.body.data = upstream.body
  /\ resp.body.details = NoBody

(* C8 as stated: a success reply with no candidates, empty candidates, a    *)
(* candidate without content, or content without a usable text part is      *)
(* answered 500 with {error: "No valid response from Gemini API", data}.    *)
C8_AsStated ==
  GotShape(LacksCandidate \cup LacksText) => ShapeErrorIs

(* C8, amended: a success reply with no candidates, empty candidates or a   *)
(* first candidate without content is answered 500 with {error: "No valid   *)
(* response from Gemini API", data: the upstream body}; content without a   *)
(* usable text part never gets that answer.                                 *)
C8_ShapeError ==
  /\ GotShape(LacksCandidate) => ShapeErrorIs
  /\ GotShape(LacksText) => ~ShapeErrorIs

(* C8 witness: a reply with an empty candidates list was answered with the  *)
(* shape error.                                                             *)
C8_Witness ==
  GotShape({"emptycandidates"}) /\ ShapeErrorIs /\ path = "shapeError"

(* C9: a non-success upstream status S is answered with status S and        *)
(* {error: "Error from Gemini API", details: the upstream body}; nothing is *)
(* parsed and no fallback is built.                                         *)
C9_UpstreamStatus ==
  (Done /\ upstream # NoUpstream /\ upstream.status \notin 200..299) =>
    /\ ErrorIs(upstream.status, "Error from Gemini API")
    /\ resp.body.details = upstream.body
    /\ resp.body.data = NoBody
    /\ path = "upstreamError"

(* C9 witness: an upstream 503 was answered 503.                            *)
C9_Witness ==
  Done /\ upstream.status = 503 /\ resp.status = 503 /\ resp.body.details = upstream.body

(* C10: with the image present and no API key configured, the answer is 500 *)
(* with {error: "Google API key not configured"} and no upstream call.      *)
C10_MissingKey ==
  (Handled /\ Truthy(Image) /\ ~Truthy(apiKey)) =>
    /\ ErrorIs(500, "Google API key not configured")
    /\ resp.body.details = NoBody /\ resp.body.data = NoBody
    /\ upstreamCalls = 0

(* C10 witness: a data URL arrived with no API key in the environment.      *)
C10_Witness ==
  /\ Handled /\ HasDataUrlPrefix(Image.s) /\ apiKey = Undef
  /\ resp.status = 500 /\ upstreamCalls = 0

HasCors(r) ==
  /\ \E h \in r.headers : h.name = "Access-Control-Allow-Origin" /\ h.value = "*"
  /\ \E h \in r.headers : h.name = "Access-Control-Allow-Headers"

ResponsePaths ==
  {"preflight", "badrequest", "config", "upstreamError", "shapeError", "parsed",
   "fallback", "exception"}

(* C11: every response the relay produces, on the preflight, missing-image, *)
(* missing-credential, upstream-error, shape-error, parsed, fallback and    *)
(* catch-all paths, carries Access-Control-Allow-Origin: * and              *)
(* Access-Control-Allow-Headers.                                            *)
C11_CorsEverywhere ==
  /\ resp # NoResponse => HasCors(resp)
  /\ Done => path \in ResponsePaths /\ HasCors(resp)

(* C11 witness: the catch-all path answered a request whose body is not     *)
(* JSON, and the answer carries the CORS headers.                           *)
C11_Witness ==
  /\ Done /\ path = "exception" /\ req.body.kind = "notjson"
  /\ HasCors(resp)

(* C12: an OPTIONS request is answered before any business logic, whatever  *)
(* its body and the configuration: the body is not read, no check runs, no  *)
(* upstream call is made, and the answer is status 200 with the CORS        *)
(* headers and an empty body.                                               *)
C12_PreflightShortCircuit ==
  req.method = "OPTIONS" =>
    /\ pc \in {"received", "done"}
    /\ upstreamCalls = 0 /\ sent = NoRequestBody /\ upstream = NoUpstream
    /\ Done => /\ path = "preflight"
               /\ resp.status = 200
               /\ resp.headers = corsHeaders
               /\ resp.body = RespBody("empty", "", NoBody, NoBody, NoJson)

(* C12 witness: an OPTIONS request with a body that is not JSON and no API  *)
(* key was answered 200, empty.                                             *)
C12_Witness ==
  /\ Done /\ req.method = "OPTIONS" /\ req.body.kind = "notjson" /\ apiKey = Undef
  /\ resp.status = 200 /\ resp.body.kind = "empty"

GreedySpan(text) == SubSeq(text, FirstLB(text), LastRB(text))
AnsweredFallback ==
  /\ path = "fallback"
  /\ resp.status = 200
  /\ resp.body.json = CanonicalFallbackJson

(* C13: the relay parses the span from the first "{" to the last "}" of the *)
(* reply text and nothing else: an object with nested braces is parsed      *)
(* whole, the answer depends on that span only, and when that span is not   *)
(* JSON the answer is the fallback even if a shorter span would parse.      *)
C13_GreedySpanOnly ==
  GotText =>
    IF HasSpan(UpstreamText)
    THEN LET p == JSONparse(GreedySpan(UpstreamText))
         IN  IF p.ok
             THEN /\ path = "parsed"
                  /\ resp.status = 200
                  /\ resp.body.json = JSONstringify(p.obj)
             ELSE AnsweredFallback
    ELSE AnsweredFallback

(* C13 witness: {"extra":{}} was parsed whole, nested object included.      *)
C13_Witness ==
  /\ GotText
  /\ UpstreamText = <<LB, KeyTok("extra"), LB, RB, RB>>
  /\ path = "parsed"
  /\ Field(ResultObject, "extra") = "object"
  /\ resp.body.json = UpstreamText

(* C13, second case reached: {} x } holds the parseable span {} but its     *)
(* greedy span is not JSON, and the answer is the fallback.                 *)
C13_NoSecondAttempt ==
  /\ GotText
  /\ UpstreamText = <<LB, RB, X, RB>>
  /\ JSONparse(SubSeq(UpstreamText, 1, 2)).ok
  /\ AnsweredFallback

ExceptionRaised ==
  /\ Done
  /\ req.method = "POST"
  /\ \/ req.body.kind = "notjson"
     \/ /\ req.body.kind = "object"
        /\ Truthy(Image) /\ Image.t # "str" /\ Truthy(apiKey)
     \/ upstreamCalls = 1 /\ upstream = NoUpstream
     \/ upstream.status = 200 /\ upstream.body.json = "notjson"
     \/ /\ upstream.status = 200 /\ upstream.body.json = "object"
        /\ upstream.body.shape = "noparts"

AnsweredServerError ==
  /\ path = "exception"
  /\ resp.status = 500
  /\ resp.body.kind = "error"
  /\ resp.body.error # ""
  /\ resp.body.json = NoJson
  /\ resp.body.details = NoBody /\ resp.body.data = NoBody

(* C15: every non-OPTIONS invocation ends with exactly one response, and an *)
(* exception raised while handling it (request body not JSON, image not a   *)
(* string, upstream call failing, upstream success body not JSON, content   *)
(* without parts) is answered 500 with {error: message}, never with a 200   *)
(* and never with the parse fallback.                                       *)
C15_ExceptionsCaught ==
  /\ [](ExceptionRaised => AnsweredServerError)
  /\ [](resp # NoResponse <=> Done)
  /\ [][resp # NoResponse => resp' = resp]_vars
  /\ (pc = "received" /\ req.method = "POST") ~> Done

(* C15 witness: a 200 reply whose body is not JSON was answered 500 by the  *)
(* catch-all.                                                               *)
C15_Witness ==
  /\ Done /\ req.method = "POST"
  /\ upstream.status = 200 /\ upstream.body.json = "notjson"
  /\ AnsweredServerError

(* C14: in the client, under every interleaving of selecting an image,     *)
(* analyzing, resetting and the reply of an analyze call in flight, when    *)
(* the screen is 'result' an image is selected and the result shown is the  *)
(* reply to the request sent for that image; a reply that arrives after     *)
(* resetToHome does not bring up the result screen.                         *)
C14_ResultMatchesSelection ==
  currentScreen = "result" =>
    /\ selectedImage # "null"
    /\ analysisResult # "null"
    /\ analysisResult = selectedImage

====
